---------------------------- MODULE Spec2Model ----------------------------
(***************************************************************************)
(* A model of tianchi_crawler: the citation linker, the pruning content   *)
(* filter, the Markdown generation orchestrator (converter.py), the       *)
(* batch crawler (crawler.py) and the crawl_urls tool (service.py).       *)
(*                                                                         *)
(* Strings of the program are TLA+ strings; Len, SubSeq and \o act on     *)
(* them as Python's len, slicing and + do.  Floats are exact rationals    *)
(* held as integers in millionths (0.48 is 480000).                       *)
(***************************************************************************)
EXTENDS Integers, Sequences, FiniteSets, TLC

VARIABLES
    linker,   \* the locals of one convert_links_to_citations call
    filt,     \* the locals of one filter_content call (the soup, the walk)
    calls,    \* the html_to_markdown invocations in progress
    crawl     \* one crawl_urls / arun_many invocation

vars == <<linker, filt, calls, crawl>>

\* ------------------------------------------------------------------------
\* Bounds of the model
\* ------------------------------------------------------------------------
MaxMatches == 3

\* ------------------------------------------------------------------------
\* String helpers (Python str methods)
\* ------------------------------------------------------------------------
StartsWith(s, p) == Len(s) >= Len(p) /\ SubSeq(s, 1, Len(p)) = p

EndsWith(s, p) == Len(s) >= Len(p) /\ SubSeq(s, Len(s) - Len(p) + 1, Len(s)) = p

SetMax(S) == CHOOSE x \in S : \A y \in S : y <= x

SetMin(S) == CHOOSE x \in S : \A y \in S : x <= y

\* urllib.parse.urljoin(base, url) for the references the model feeds it: url a
\* plain relative path (no scheme, no leading "/", no dot segment, query or
\* fragment) and base "scheme://netloc" followed by an optional path.  RFC 3986
\* merge: the base up to its last "/" (a "/" is supplied when the base has no
\* path) followed by the reference.
Urljoin(base, url) ==
    LET auth    == SetMin({i \in 1..(Len(base) - 2) : SubSeq(base, i, i + 2) = "://"} \cup {Len(base) + 1}) + 3
        slashes == {i \in auth..Len(base) : SubSeq(base, i, i) = "/"}
    IN  IF slashes = {} THEN base \o "/" \o url
        ELSE SubSeq(base, 1, SetMax(slashes)) \o url

\* fast_urljoin that keeps the trailing "/" of the base
FastUrljoinKeepsSlash(base, url) ==
    IF StartsWith(url, "http://") \/ StartsWith(url, "https://")
       \/ StartsWith(url, "mailto:") \/ StartsWith(url, "//")
    THEN url
    ELSE IF StartsWith(url, "/") THEN base \o url ELSE Urljoin(base, url)

\* fast_urljoin(base, url)
fast_urljoin(base, url) ==
    IF StartsWith(url, "http://") \/ StartsWith(url, "https://")
       \/ StartsWith(url, "mailto:") \/ StartsWith(url, "//")
    THEN url
    ELSE IF StartsWith(url, "/")
         THEN IF EndsWith(base, "/")
              THEN SubSeq(base, 1, Len(base) - 1) \o url
              ELSE base \o url
         ELSE Urljoin(base, url)

\* ------------------------------------------------------------------------
\* The citation linker: DefaultMarkdownGenerator.convert_links_to_citations
\* ------------------------------------------------------------------------
\* One LINK_PATTERN match: match.groups() and whether group(0) starts with "!".
\* text is never empty ([^\]]+); title "" stands for both an absent title
\* (None) and an empty one (""), which the code treats alike (both falsy, both
\* different from the text).
Occ(image, text, url, title) == [image |-> image, text |-> text, url |-> url, title |-> title]

\* The matches the model draws rendered Markdown from.
Occurrences ==
    { Occ(FALSE, "docs",  "http://x/a", "Docs"),
      Occ(FALSE, "again", "http://x/a", ""),
      Occ(FALSE, "T",     "/a",         "T"),
      Occ(TRUE,  "img",   "/a",         "Alt"),
      Occ(FALSE, "b",     "b",          ""),
      Occ(FALSE, "docs",  "http://x/b", "B"),
      Occ(FALSE, "s",     "//x/a",      ""),
      Occ(TRUE,  "m",     "mailto:m",   "m") }

BaseUrls == {"", "http://x/", "http://x", "http://x/d/e"}

RECURSIVE SeqsUpTo(_, _)
SeqsUpTo(S, n) ==
    IF n = 0 THEN {<<>>}
    ELSE LET shorter == SeqsUpTo(S, n - 1)
         IN  shorter \cup {Append(s, x) : s \in {t \in shorter : Len(t) = n - 1}, x \in S}

Markdowns == SeqsUpTo(Occurrences, MaxMatches)

EmptyMap == [k \in {} |-> <<>>]

\* link_map = {}; url_cache = {}; parts = []; last_end = 0; counter = 1.
\* parts holds the citation markers emitted (the text between two matches is
\* copied unchanged and holds no match); last_end counts the matches consumed.
NewLinker(markdown, base_url) ==
    [ markdown |-> markdown, base_url |-> base_url,
      link_map |-> EmptyMap, url_cache |-> EmptyMap,
      parts |-> <<>>, last_end |-> 0, counter |-> 1,
      references |-> <<>>, pc |-> "scan" ]

\* url_cache after the resolution step of one match.
CacheAfter(base_url, url_cache, url) ==
    IF base_url /= "" /\ ~(StartsWith(url, "http://") \/ StartsWith(url, "https://")
                            \/ StartsWith(url, "mailto:"))
       /\ url \notin DOMAIN url_cache
    THEN url_cache @@ (url :> fast_urljoin(base_url, url))
    ELSE url_cache

\* The url the match is filed under: url = url_cache[url] when resolution applies.
Resolved(base_url, url_cache, url) ==
    IF base_url /= "" /\ ~(StartsWith(url, "http://") \/ StartsWith(url, "https://")
                            \/ StartsWith(url, "mailto:"))
    THEN CacheAfter(base_url, url_cache, url)[url]
    ELSE url

\* desc = [title if title] + [text if text and text != title];
\* ": " + " - ".join(desc) if desc else ""
Describe(text, title) ==
    LET desc == (IF title /= "" THEN <<title>> ELSE <<>>)
                \o (IF text /= "" /\ text /= title THEN <<text>> ELSE <<>>)
    IN  IF desc = <<>> THEN ""
        ELSE IF Len(desc) = 1 THEN ": " \o desc[1]
        ELSE ": " \o desc[1] \o " - " \o desc[2]

DescribeLatest(link_map, url, counter, text, title) ==
    IF url \notin DOMAIN link_map
    THEN link_map @@ (url :> <<counter, Describe(text, title)>>)
    ELSE [link_map EXCEPT ![url] = <<@[1], Describe(text, title)>>]

\* if url not in link_map: link_map[url] = (counter, desc)
LinkMapAfter(link_map, url, counter, text, title) ==
    IF url \notin DOMAIN link_map
    THEN link_map @@ (url :> <<counter, Describe(text, title)>>)
    ELSE link_map

CounterAlways(link_map, url, counter) == counter + 1

\* counter += 1, inside the same if
CounterAfter(link_map, url, counter) ==
    IF url \notin DOMAIN link_map THEN counter + 1 ELSE counter

\* The body of the for loop, for the next match.
CiteStep(st) ==
    LET m    == st.markdown[st.last_end + 1]
        url  == Resolved(st.base_url, st.url_cache, m.url)
        lm   == LinkMapAfter(st.link_map, url, st.counter, m.text, m.title)
        num  == lm[url][1]
    IN  [ st EXCEPT
            !.url_cache = CacheAfter(st.base_url, st.url_cache, m.url),
            !.link_map  = lm,
            !.counter   = CounterAfter(st.link_map, url, st.counter),
            !.parts     = Append(@, [text |-> m.text, num |-> num, image |-> m.image]),
            !.last_end  = @ + 1 ]

RefLine(link_map, u) == [num |-> link_map[u][1], url |-> u, desc |-> link_map[u][2]]

RECURSIVE SortedDescending(_)
SortedDescending(link_map) ==
    IF DOMAIN link_map = {} THEN <<>>
    ELSE LET u == CHOOSE v \in DOMAIN link_map :
                      \A w \in DOMAIN link_map : link_map[w][1] <= link_map[v][1]
         IN  <<RefLine(link_map, u)>>
             \o SortedDescending([v \in DOMAIN link_map \ {u} |-> link_map[v]])

\* sorted(link_map.items(), key=lambda x: x[1][0]), one reference line per item
RECURSIVE SortedByNum(_)
SortedByNum(link_map) ==
    IF DOMAIN link_map = {} THEN <<>>
    ELSE LET u == CHOOSE v \in DOMAIN link_map :
                      \A w \in DOMAIN link_map : link_map[v][1] <= link_map[w][1]
         IN  <<RefLine(link_map, u)>>
             \o SortedByNum([v \in DOMAIN link_map \ {u} |-> link_map[v]])

\* After the loop: the references block (its lines, after the header).
CiteEnd(st) == [st EXCEPT !.references = SortedByNum(st.link_map), !.pc = "done"]

\* The whole call, as generate_markdown uses it.
RECURSIVE ConvertLinks(_)
ConvertLinks(st) ==
    IF st.last_end < Len(st.markdown) THEN ConvertLinks(CiteStep(st)) ELSE CiteEnd(st)

convert_links_to_citations(markdown, base_url) == ConvertLinks(NewLinker(markdown, base_url))

IdleLinker == NewLinker(<<>>, "")
IdleFilt == [pc |-> "idle"]
IdleCalls == <<>>
IdleCrawl == [pc |-> "idle"]

InitCite ==
    /\ \E md \in Markdowns, b \in BaseUrls : linker = NewLinker(md, b)
    /\ filt = IdleFilt
    /\ calls = IdleCalls
    /\ crawl = IdleCrawl

CiteMatch ==
    /\ linker.pc = "scan"
    /\ linker.last_end < Len(linker.markdown)
    /\ linker' = CiteStep(linker)
    /\ UNCHANGED <<filt, calls, crawl>>

CiteFinish ==
    /\ linker.pc = "scan"
    /\ linker.last_end = Len(linker.markdown)
    /\ linker' = CiteEnd(linker)
    /\ UNCHANGED <<filt, calls, crawl>>

NextCite == CiteMatch \/ CiteFinish

SpecCite == InitCite /\ [][NextCite]_vars

\* ------------------------------------------------------------------------
\* Claims about the citation linker (checked under SpecCite)
\* ------------------------------------------------------------------------
\* The resolved URL of the i-th match of the call in progress.
ResolvedAt(i) == Resolved(linker.base_url, EmptyMap, linker.markdown[i].url)

\* The index of the first match that resolves to the URL of match i.
FirstAt(i) == SetMin({j \in 1..i : ResolvedAt(j) = ResolvedAt(i)})

\* C2: in one convert_links_to_citations call the k-th distinct resolved URL, in
\* first-occurrence order, gets number k (from 1, contiguous), every later
\* occurrence of a URL is emitted with the number of its first occurrence, and
\* no number is shared by two URLs.
C2_FirstOccurrenceNumbering ==
    /\ Len(linker.parts) = linker.last_end
    /\ \A i \in 1..Len(linker.parts) :
          linker.parts[i].num = Cardinality({ResolvedAt(j) : j \in 1..FirstAt(i)})
    /\ \A i, j \in 1..Len(linker.parts) :
          linker.parts[i].num = linker.parts[j].num => ResolvedAt(i) = ResolvedAt(j)

\* A scan of three matches numbered 1, 2, 1 whose first and third raw targets
\* differ and resolve to the same URL.
C2_Witness ==
    /\ linker.pc = "done"
    /\ Len(linker.parts) = 3
    /\ linker.parts[1].num = 1 /\ linker.parts[2].num = 2 /\ linker.parts[3].num = 1
    /\ linker.markdown[1].url /= linker.markdown[3].url

\* C3: the references block has exactly one line per distinct resolved URL cited
\* in the rewritten text: the numbers on the lines are the numbers of the
\* markers emitted, each line carries the URL its number was given to, no URL
\* or number appears twice, and the lines ascend by number.
C3_ReferencesMatchCitations ==
    linker.pc = "done" =>
        LET refs == linker.references
            cited == {ResolvedAt(i) : i \in 1..Len(linker.markdown)}
        IN  /\ Len(linker.parts) = Len(linker.markdown)
            /\ Len(refs) = Cardinality(cited)
            /\ {refs[k].url : k \in 1..Len(refs)} = cited
            /\ {refs[k].num : k \in 1..Len(refs)}
                 = {linker.parts[i].num : i \in 1..Len(linker.parts)}
            /\ \A k \in 1..Len(refs) : \A i \in 1..Len(linker.parts) :
                  ResolvedAt(i) = refs[k].url => linker.parts[i].num = refs[k].num
            /\ \A k, l \in 1..Len(refs) :
                  k /= l => refs[k].url /= refs[l].url /\ refs[k].num /= refs[l].num
            /\ \A k \in 1..(Len(refs) - 1) : refs[k].num < refs[k + 1].num

\* A finished scan of three matches citing two distinct URLs.
C3_Witness ==
    /\ linker.pc = "done"
    /\ Len(linker.parts) = 3
    /\ Len(linker.references) = 2

\* The description the claim gives a first occurrence with this text and title.
FrozenDescription(m) ==
    IF m.title = "" THEN ": " \o m.text
    ELSE IF m.text = m.title THEN ": " \o m.title
    ELSE ": " \o m.title \o " - " \o m.text

\* C10: the description of a citation is the one built from the first
\* occurrence of its resolved URL (title, then the text if it differs, joined by
\* " - "), whatever later occurrences carry, and the reference line shows it.
C10_DescriptionFrozenAtFirstSight ==
    /\ \A i \in 1..linker.last_end :
          /\ ResolvedAt(i) \in DOMAIN linker.link_map
          /\ linker.link_map[ResolvedAt(i)][2] = FrozenDescription(linker.markdown[FirstAt(i)])
    /\ linker.pc = "done" =>
          \A k \in 1..Len(linker.references) : \A i \in 1..Len(linker.markdown) :
              ResolvedAt(i) = linker.references[k].url =>
                  linker.references[k].desc = FrozenDescription(linker.markdown[FirstAt(i)])

\* A finished scan in which a later occurrence of a URL would have been
\* described differently from its first occurrence.
C10_Witness ==
    /\ linker.pc = "done"
    /\ \E i \in 1..Len(linker.markdown) :
          /\ FirstAt(i) < i
          /\ FrozenDescription(linker.markdown[i]) /= FrozenDescription(linker.markdown[FirstAt(i)])
          /\ \E k \in 1..Len(linker.references) :
                /\ linker.references[k].url = ResolvedAt(i)
                /\ linker.references[k].desc = FrozenDescription(linker.markdown[FirstAt(i)])


\* ------------------------------------------------------------------------
\* The pruning content filter: PruningContentFilter
\* ------------------------------------------------------------------------
MaxNodes == 3

\* An element of the parsed tree.  A document is a sequence of elements: the
\* body first (parent 0), every other element after its parent; the children of
\* an element are in document order by index.  text is the element's own
\* string, placed before its element children ("" when it has none); cls is the
\* value of its class attribute ("" when it has none).  The documents of the
\* model hold no comment and no id attribute.
Node(tag, parent, text, cls) == [tag |-> tag, parent |-> parent, text |-> text, cls |-> cls]

\* self.excluded_tags
excluded_tags == {"nav", "footer", "header", "aside", "script", "style", "form", "iframe", "noscript"}

\* self.negative_patterns.match(classes): the pattern anchored at the start
negative_patterns(classes) ==
    \E w \in {"nav", "footer", "header", "sidebar", "ads", "comment", "promo",
              "advert", "social", "share"} : StartsWith(classes, w)

\* self.tag_importance.get(name, 0.7), in thousandths
tag_importance(name) ==
    CASE name = "article" -> 1500 [] name = "main" -> 1400 [] name = "section" -> 1300
      [] name = "p" -> 1200 [] name = "h1" -> 1400 [] name = "h2" -> 1300
      [] name = "h3" -> 1200 [] name = "div" -> 700 [] name = "span" -> 600
      [] OTHER -> 700

\* self.tag_weights.get(name, 0.5), in thousandths
tag_weights(name) ==
    CASE name = "div" -> 500 [] name = "p" -> 1000 [] name = "article" -> 1500
      [] name = "section" -> 1000 [] name = "span" -> 300
      [] name \in {"li", "ul", "ol"} -> 500
      [] name = "h1" -> 1200 [] name = "h2" -> 1100 [] name = "h3" -> 1000
      [] name = "h4" -> 900 [] name = "h5" -> 800 [] name = "h6" -> 700
      [] OTHER -> 500

\* math.log(n) in millionths, rounded down, for n = 1..40
LnTable ==
    << 0, 693147, 1098612, 1386294, 1609437, 1791759, 1945910, 2079441, 2197224,
       2302585, 2397895, 2484906, 2564949, 2639057, 2708050, 2772588, 2833213,
       2890371, 2944438, 2995732, 3044522, 3091042, 3135494, 3178053, 3218875,
       3258096, 3295836, 3332204, 3367295, 3401197, 3433987, 3465735, 3496507,
       3526360, 3555348, 3583518, 3610917, 3637586, 3663561, 3688879 >>

IsSpace(ch) == ch \in {" ", "\t", "\n"}

\* str.strip()
RECURSIVE Strip(_)
Strip(s) ==
    IF s = "" THEN ""
    ELSE IF IsSpace(SubSeq(s, 1, 1)) THEN Strip(SubSeq(s, 2, Len(s)))
    ELSE IF IsSpace(SubSeq(s, Len(s), Len(s))) THEN Strip(SubSeq(s, 1, Len(s) - 1))
    ELSE s

\* str.count(" ")
CountSpaces(s) == Cardinality({i \in 1..Len(s) : SubSeq(s, i, i) = " "})

\* The sum of the second components of a set of pairs.
RECURSIVE SumPairs(_)
SumPairs(P) ==
    IF P = {} THEN 0
    ELSE LET q == CHOOSE q \in P : TRUE IN q[2] + SumPairs(P \ {q})

\* The elements of a set of indices, ascending.
RECURSIVE Ascending(_)
Ascending(S) ==
    IF S = {} THEN <<>> ELSE <<SetMin(S)>> \o Ascending(S \ {SetMin(S)})

RECURSIVE InSubtree(_, _, _)
InSubtree(doc, root, n) ==
    n = root \/ (n > 1 /\ doc[n].parent /= 0 /\ InSubtree(doc, root, doc[n].parent))

\* The element and all its descendants.
Subtree(doc, n) == {k \in 1..Len(doc) : InSubtree(doc, n, k)}

\* node.children restricted to elements still in the tree
ChildElements(doc, alive, n) == {c \in alive : doc[c].parent = n}

RECURSIVE ConcatAll(_)
ConcatAll(strs) == IF strs = <<>> THEN "" ELSE Head(strs) \o ConcatAll(Tail(strs))

\* node.get_text(strip=True): every string of the subtree stripped, the empty
\* ones dropped, the rest joined with nothing between them
RECURSIVE GetText(_, _, _)
GetText(doc, alive, n) ==
    LET kids == Ascending(ChildElements(doc, alive, n))
    IN  Strip(doc[n].text) \o ConcatAll([i \in 1..Len(kids) |-> GetText(doc, alive, kids[i])])

\* text_len = len(node.get_text(strip=True))
TextLen(doc, alive, n) == Len(GetText(doc, alive, n))

\* The length of str(element): <tag class="..."> contents </tag>
RECURSIVE OuterLen(_, _, _)
\* len(node.encode_contents().decode("utf-8"))
TagLen(doc, alive, n) ==
    Len(doc[n].text)
    + SumPairs({<<c, OuterLen(doc, alive, c)>> : c \in ChildElements(doc, alive, n)})

OuterLen(doc, alive, n) ==
    2 * Len(doc[n].tag) + 5
    + (IF doc[n].cls = "" THEN 0 ELSE Len(doc[n].cls) + 9)
    + TagLen(doc, alive, n)

\* a.string: the only child when it is a string, the .string of the only child
\* when it is an element, None ("") otherwise
RECURSIVE StringOf(_, _, _)
StringOf(doc, alive, n) ==
    LET kids == ChildElements(doc, alive, n)
    IN  IF doc[n].text /= "" /\ kids = {} THEN doc[n].text
        ELSE IF doc[n].text = "" /\ Cardinality(kids) = 1
             THEN StringOf(doc, alive, CHOOSE c \in kids : TRUE)
        ELSE ""

\* sum(len(s.strip()) for s in (a.string for a in node.find_all("a", recursive=False)) if s)
LinkTextLen(doc, alive, n) ==
    SumPairs({<<a, Len(Strip(StringOf(doc, alive, a)))>> :
                a \in {c \in ChildElements(doc, alive, n) : doc[c].tag = "a"}})

\* _compute_class_id_weight, in thousandths
compute_class_id_weight(node) ==
    IF node.cls /= "" /\ negative_patterns(node.cls) THEN -500 ELSE 0

Max(a, b) == IF a >= b THEN a ELSE b

\* word_count = text.count(" ") + 1
WordCount(doc, alive, n) == CountSpaces(GetText(doc, alive, n)) + 1

\* _compute_composite_score, in millionths (every term rounded down); the
\* metric weights are 0.4, 0.2, 0.2, 0.1, 0.1 and total_weight is 1.0
compute_composite_score(cfg, doc, alive, n) ==
    LET text_len      == TextLen(doc, alive, n)
        tag_len       == TagLen(doc, alive, n)
        link_text_len == LinkTextLen(doc, alive, n)
    IN  IF cfg.min_word_threshold /= 0 /\ WordCount(doc, alive, n) < cfg.min_word_threshold
        THEN -1000000
        ELSE (IF tag_len > 0 THEN (400000 * text_len) \div tag_len ELSE 0)
             + (IF text_len > 0 THEN (200000 * (text_len - link_text_len)) \div text_len
                ELSE 200000)
             + 200 * tag_weights(doc[n].tag)
             + 100 * Max(0, compute_class_id_weight(doc[n]))
             + LnTable[text_len + 1] \div 10

\* The three adjustments, each applied to the base threshold instead of the
\* running value.
DynamicThresholdNotCompounded(threshold, tag, text_len, tag_len, link_text_len) ==
    LET t1 == IF tag_importance(tag) > 1000 THEN (threshold * 8) \div 10 ELSE threshold
        t2 == IF tag_len > 0 /\ 10 * text_len > 4 * tag_len THEN (threshold * 9) \div 10 ELSE t1
        t3 == IF text_len = 0 \/ 10 * link_text_len > 6 * text_len
              THEN (threshold * 12) \div 10 ELSE t2
    IN  t3

\* threshold = self.threshold; *= 0.8 / *= 0.9 / *= 1.2 in turn (millionths;
\* text_ratio is 0 when tag_len = 0, link_ratio is 1 when text_len = 0)
DynamicThreshold(threshold, tag, text_len, tag_len, link_text_len) ==
    LET t1 == IF tag_importance(tag) > 1000 THEN (threshold * 8) \div 10 ELSE threshold
        t2 == IF tag_len > 0 /\ 10 * text_len > 4 * tag_len THEN (t1 * 9) \div 10 ELSE t1
        t3 == IF text_len = 0 \/ 10 * link_text_len > 6 * text_len
              THEN (t2 * 12) \div 10 ELSE t2
    IN  t3

\* The threshold the score of the node is compared with.
EffectiveThreshold(cfg, doc, alive, n) ==
    IF cfg.threshold_type = "fixed" THEN cfg.threshold
    ELSE DynamicThreshold(cfg.threshold, doc[n].tag, TextLen(doc, alive, n),
                          TagLen(doc, alive, n), LinkTextLen(doc, alive, n))

RemoveTopLevelOnly(doc, alive) ==
    alive \ UNION {Subtree(doc, a) : a \in {k \in alive : doc[k].parent = 1 /\ doc[k].tag \in excluded_tags}}

\* _remove_unwanted_tags: every element with an excluded tag is decomposed
remove_unwanted_tags(doc, alive) ==
    alive \ UNION {Subtree(doc, a) : a \in {k \in alive : doc[k].tag \in excluded_tags}}

\* The soup after parsing, before anything is removed.
NewFilter(cfg, doc) ==
    [ cfg |-> cfg, doc |-> doc, alive |-> 1..Len(doc), stack |-> <<>>,
      visits |-> <<>>, content_blocks |-> <<>>, pc |-> "parsed" ]

\* self._remove_comments(soup); self._remove_unwanted_tags(soup); then the walk
\* starts at the body
FilterStart(st) ==
    [st EXCEPT !.alive = remove_unwanted_tags(st.doc, st.alive), !.stack = <<1>>, !.pc = "prune"]

\* _prune_tree that takes a removed node out alone and goes on into its children
PruneStepVisitsRemoved(st) ==
    LET n      == Head(st.stack)
        score  == compute_composite_score(st.cfg, st.doc, st.alive, n)
        thr    == EffectiveThreshold(st.cfg, st.doc, st.alive, n)
        remove == score < thr
        visit  == [ node |-> n, tag_name |-> st.doc[n].tag,
                    text_len |-> TextLen(st.doc, st.alive, n),
                    tag_len |-> TagLen(st.doc, st.alive, n),
                    link_text_len |-> LinkTextLen(st.doc, st.alive, n),
                    score |-> score, threshold |-> thr, removed |-> remove ]
    IN  [ st EXCEPT
            !.visits = Append(@, visit),
            !.alive  = IF remove THEN @ \ {n} ELSE @,
            !.stack  = Ascending(ChildElements(st.doc, st.alive, n)) \o Tail(@) ]

\* One call of _prune_tree on the next node of the depth-first walk: the stack
\* holds the pending calls, innermost first.
PruneStep(st) ==
    LET n      == Head(st.stack)
        score  == compute_composite_score(st.cfg, st.doc, st.alive, n)
        thr    == EffectiveThreshold(st.cfg, st.doc, st.alive, n)
        remove == score < thr
        visit  == [ node |-> n, tag_name |-> st.doc[n].tag,
                    text_len |-> TextLen(st.doc, st.alive, n),
                    tag_len |-> TagLen(st.doc, st.alive, n),
                    link_text_len |-> LinkTextLen(st.doc, st.alive, n),
                    score |-> score, threshold |-> thr, removed |-> remove ]
    IN  [ st EXCEPT
            !.visits = Append(@, visit),
            !.alive  = IF remove THEN @ \ Subtree(st.doc, n) ELSE @,
            !.stack  = IF remove THEN Tail(@)
                       ELSE Ascending(ChildElements(st.doc, st.alive, n)) \o Tail(@) ]

\* content_blocks: the element children of the body with stripped text
FilterEnd(st) ==
    [ st EXCEPT
        !.content_blocks =
            Ascending({c \in ChildElements(st.doc, st.alive, 1) :
                          1 \in st.alive /\ TextLen(st.doc, st.alive, c) > 0}),
        !.pc = "done" ]

RECURSIVE PruneAll(_)
PruneAll(st) == IF st.stack /= <<>> THEN PruneAll(PruneStep(st)) ELSE FilterEnd(st)

\* filter_content(html) on a parsed document
filter_content(cfg, doc) == PruneAll(FilterStart(NewFilter(cfg, doc)))

\* --- the documents and configurations the model draws from ---
GenTags == {"p", "div", "a", "nav"}

GenTexts == {"", "w", "w w", "w  w"}

BlockTags == {"p", "div", "nav", "article"}

\* Documents of exactly k elements: the parser never leaves a block element
\* inside a p.
RECURSIVE DocsOfSize(_)
DocsOfSize(k) ==
    IF k = 1 THEN {<<Node("body", 0, "", "")>>}
    ELSE {Append(d, Node(t, q, x, "")) :
             d \in DocsOfSize(k - 1), t \in GenTags, q \in 1..(k - 1), x \in GenTexts}

ParserShaped(d) ==
    \A k \in 2..Len(d) : d[k].tag \in BlockTags => d[d[k].parent].tag /= "p"

ExampleDocs ==
    { \* <article>aaaa bbbb cccc ddd<a>xx</a><span></span></article>
      << Node("body", 0, "", ""), Node("article", 1, "aaaa bbbb cccc ddd", ""),
         Node("a", 2, "xx", ""), Node("span", 2, "", "") >>,
      \* <div class="nav-bar">main text here<script>x</script></div><p>a\tb</p>
      << Node("body", 0, "", ""), Node("div", 1, "main text here", "nav-bar"),
         Node("script", 2, "x", ""), Node("p", 1, "a\tb", "") >>,
      \* <nav>menu</nav><p> w </p>
      << Node("body", 0, "", ""), Node("nav", 1, "menu", ""), Node("p", 1, " w ", "") >>,
      \* <div>aaaa bbbb<p>cccc dddd</p></div><div class="sidebar"><a>x</a></div>
      << Node("body", 0, "", ""), Node("div", 1, "aaaa bbbb", ""), Node("div", 1, "", "sidebar"),
         Node("p", 2, "cccc dddd", ""), Node("a", 3, "x", "") >> }

Documents ==
    {d \in UNION {DocsOfSize(k) : k \in 2..MaxNodes} : ParserShaped(d)} \cup ExampleDocs

\* PruningContentFilter(min_word_threshold, threshold_type, threshold);
\* min_word_threshold 0 stands for None (both falsy); threshold in millionths
PruneCfg(type, threshold, min_words) ==
    [threshold_type |-> type, threshold |-> threshold, min_word_threshold |-> min_words]

PruneConfigs ==
    { PruneCfg("fixed", 480000, 0), PruneCfg("dynamic", 600000, 0),
      PruneCfg("fixed", 480000, 3), PruneCfg("dynamic", 600000, 1) }

InitPrune ==
    /\ \E cfg \in PruneConfigs, d \in Documents : filt = NewFilter(cfg, d)
    /\ linker = IdleLinker
    /\ calls = IdleCalls
    /\ crawl = IdleCrawl

RemoveUnwanted ==
    /\ filt.pc = "parsed"
    /\ filt' = FilterStart(filt)
    /\ UNCHANGED <<linker, calls, crawl>>

PruneVisit ==
    /\ filt.pc = "prune"
    /\ filt.stack /= <<>>
    /\ filt' = PruneStep(filt)
    /\ UNCHANGED <<linker, calls, crawl>>

Collect ==
    /\ filt.pc = "prune"
    /\ filt.stack = <<>>
    /\ filt' = FilterEnd(filt)
    /\ UNCHANGED <<linker, calls, crawl>>

NextPrune == RemoveUnwanted \/ PruneVisit \/ Collect

SpecPrune == InitPrune /\ [][NextPrune]_vars


\* ------------------------------------------------------------------------
\* Claims about the pruning filter (checked under SpecPrune)
\* ------------------------------------------------------------------------
\* C4: no fragment returned by filter_content holds an element with an excluded
\* tag at any depth, and no such element is ever scored: all of them leave the
\* tree before the walk starts.
C4_NoExcludedTagSurvives ==
    /\ filt.pc /= "parsed" => \A n \in filt.alive : filt.doc[n].tag \notin excluded_tags
    /\ \A i \in 1..Len(filt.visits) : filt.visits[i].tag_name \notin excluded_tags
    /\ filt.pc = "done" =>
          \A k \in 1..Len(filt.content_blocks) :
              \A n \in Subtree(filt.doc, filt.content_blocks[k]) \cap filt.alive :
                  filt.doc[n].tag \notin excluded_tags

\* A fragment is returned whose element held, below its top level, an element
\* with an excluded tag.
C4_Witness ==
    /\ filt.pc = "done"
    /\ \E k \in 1..Len(filt.content_blocks) :
          \E n \in Subtree(filt.doc, filt.content_blocks[k]) :
              /\ filt.doc[n].tag \in excluded_tags
              /\ filt.doc[n].parent = filt.content_blocks[k]
              /\ n \notin filt.alive

\* The elements in the tree when the walk starts.
AfterUnwanted == remove_unwanted_tags(filt.doc, 1..Len(filt.doc))

\* len(s.split()): the whitespace-delimited words of s
Words(s) ==
    Cardinality({i \in 1..Len(s) :
                    /\ ~IsSpace(SubSeq(s, i, i))
                    /\ (i = 1 \/ IsSpace(SubSeq(s, i - 1, i - 1)))})

\* C8: with min_word_threshold set, every visited node whose whitespace-
\* delimited word count is below it is removed (its score forced to -1.0, below
\* every threshold); and a document of excluded-tag content and one p whose
\* text is below the minimum yields no fragment.
C8_BelowMinWordsRemoved ==
    filt.cfg.min_word_threshold /= 0 =>
        /\ \A i \in 1..Len(filt.visits) :
              LET v == filt.visits[i]
              IN  Words(GetText(filt.doc, AfterUnwanted, v.node)) < filt.cfg.min_word_threshold
                      => v.removed /\ v.node \notin filt.alive
        /\ ( /\ filt.pc = "done"
             /\ Cardinality({n \in 2..Len(filt.doc) : filt.doc[n].tag = "p"}) = 1
             /\ \A n \in 2..Len(filt.doc) :
                   \/ filt.doc[n].tag = "p" /\ filt.doc[n].parent = 1
                         /\ Words(filt.doc[n].text) < filt.cfg.min_word_threshold
                   \/ \E a \in 2..Len(filt.doc) :
                         filt.doc[a].tag \in excluded_tags /\ InSubtree(filt.doc, a, n) )
           => filt.content_blocks = <<>>

\* C9: in dynamic mode the threshold a node is judged by is the base threshold
\* times 0.8 if the tag's importance exceeds 1, times 0.9 if text_len/tag_len
\* exceeds 0.4 (0 when tag_len = 0), times 1.2 if link_text_len/text_len exceeds
\* 0.6 (1 when text_len = 0), the factors compounding; the node is removed iff
\* its score is strictly below it.
C9_DynamicThresholdCompounds ==
    filt.cfg.threshold_type = "dynamic" =>
        \A i \in 1..Len(filt.visits) :
            LET v  == filt.visits[i]
                f1 == IF v.tag_name \in {"article", "main", "section", "p", "h1", "h2", "h3"}
                      THEN 8 ELSE 10
                f2 == IF v.tag_len > 0 /\ 10 * v.text_len > 4 * v.tag_len THEN 9 ELSE 10
                f3 == IF v.text_len = 0 \/ 10 * v.link_text_len > 6 * v.text_len THEN 12 ELSE 10
            IN  /\ 1000 * v.threshold = filt.cfg.threshold * f1 * f2 * f3
                /\ v.removed <=> v.score < v.threshold
                /\ v.removed <=> v.node \notin filt.alive

\* The example of the specification: base 0.6, an article with text ratio 0.5
\* and link ratio 0.1 is judged by 0.432.
C9_Witness ==
    /\ filt.cfg.threshold_type = "dynamic"
    /\ filt.cfg.threshold = 600000
    /\ \E i \in 1..Len(filt.visits) :
          LET v == filt.visits[i]
          IN  /\ v.tag_name = "article"
              /\ 2 * v.text_len = v.tag_len
              /\ 10 * v.link_text_len = v.text_len
              /\ v.threshold = 432000
              /\ ~v.removed


\* ------------------------------------------------------------------------
\* The orchestrator: DefaultMarkdownGenerator.generate_markdown, and the
\* per-call wrapper html_to_markdown
\* ------------------------------------------------------------------------
MaxCalls == 2

\* Text values.  html2text and str.strip are library code: the rendering of x
\* by the renderer h is the value Handle(h, x), and what its links match is
\* given with the page.
Empty == [kind |-> "empty"]

Handle(h, x) == [kind |-> "md", of |-> x, options |-> h]

\* str.strip(): "" for the empty string and for the rendering of no fragment at
\* all (html2text renders empty input as line breaks only)
StripText(x) ==
    IF x = Empty \/ (x.kind = "md" /\ x.of.kind = "html" /\ x.of.blocks = <<>>)
    THEN Empty
    ELSE [kind |-> "stripped", of |-> x]

\* error_msg = f"Error: {str(e)}", e raised by the named step
ErrorMsg(step) == [kind |-> "error", of |-> "Error: " \o step]

\* A page: what LINK_PATTERN matches in its rendering (after the code-fence
\* replace), its parsed tree, and the library call of generate_markdown that
\* raises on it: "render" (h.handle of the input), "filter" (the parse or the
\* recursion of filter_content), "fit" (h.handle of the fragments) or "none".
\* A pipeline without shared state raises or not as a function of its input.
Page(name, markdown, doc, raises) ==
    [name |-> name, markdown |-> markdown, doc |-> doc, raises |-> raises]

\* urljoin raises ValueError("Invalid IPv6 URL") on a base whose netloc opens a
\* bracket and never closes it.
UrljoinRaises(base) ==
    /\ \E i \in 1..Len(base) : SubSeq(base, i, i) = "["
    /\ \A i \in 1..Len(base) : SubSeq(base, i, i) /= "]"

\* Whether resolving the next match of the scan raises: the target reaches
\* urljoin (not absolute, not rooted, not cached) and the base is invalid.
CiteRaises(st) ==
    LET url == st.markdown[st.last_end + 1].url
    IN  /\ st.base_url /= ""
        /\ ~(StartsWith(url, "http://") \/ StartsWith(url, "https://")
              \/ StartsWith(url, "mailto:") \/ StartsWith(url, "//") \/ StartsWith(url, "/"))
        /\ url \notin DOMAIN st.url_cache
        /\ UrljoinRaises(st.base_url)

ArticleDoc ==
    << Node("body", 0, "", ""), Node("article", 1, "aaaa bbbb cccc ddd", ""),
       Node("a", 2, "xx", ""), Node("span", 2, "", "") >>

NavDoc ==
    << Node("body", 0, "", ""), Node("nav", 1, "menu", ""), Node("p", 1, "w w", ""),
       Node("div", 1, "w", "") >>

DocsLinks ==
    << Occ(FALSE, "docs", "http://x/a", "Docs"), Occ(FALSE, "again", "http://x/a", ""),
       Occ(FALSE, "b", "/b", "") >>

NavLinks == << Occ(FALSE, "T", "/a", "T"), Occ(TRUE, "img", "http://x/b", "") >>

RelativeLinks ==
    << Occ(FALSE, "docs", "http://x/a", "Docs"), Occ(FALSE, "T", "/a", "T"),
       Occ(FALSE, "b", "b", "") >>

\* html_to_markdown's arguments
Args(html, base_url, use_pruning, cfg, use_citations) ==
    [ html |-> html, base_url |-> base_url, use_pruning |-> use_pruning,
      pruning |-> cfg, use_citations |-> use_citations ]

EmptyHtml == Page("", <<>>, <<>>, "none")

CallArgs ==
    { Args(EmptyHtml, "", TRUE, PruneCfg("fixed", 480000, 0), TRUE),
      Args(Page("article", DocsLinks, ArticleDoc, "none"), "http://x/", TRUE,
           PruneCfg("dynamic", 600000, 0), TRUE),
      Args(Page("nav", NavLinks, NavDoc, "none"), "http://x", TRUE,
           PruneCfg("fixed", 480000, 0), TRUE),
      Args(Page("nav", NavLinks, NavDoc, "none"), "", FALSE,
           PruneCfg("fixed", 480000, 0), TRUE),
      Args(Page("article", DocsLinks, ArticleDoc, "none"), "", TRUE,
           PruneCfg("fixed", 480000, 3), FALSE),
      Args(Page("r", DocsLinks, ArticleDoc, "render"), "", TRUE,
           PruneCfg("fixed", 480000, 0), TRUE),
      Args(Page("c", RelativeLinks, ArticleDoc, "none"), "http://[", TRUE,
           PruneCfg("fixed", 480000, 0), TRUE),
      Args(Page("f", DocsLinks, ArticleDoc, "filter"), "http://x/", TRUE,
           PruneCfg("dynamic", 600000, 0), TRUE),
      Args(Page("t", NavLinks, NavDoc, "fit"), "http://x/", TRUE,
           PruneCfg("fixed", 480000, 0), TRUE) }

IdleCall == [pc |-> "idle"]

\* The locals the call continues from when the citation state lives on the
\* generator and generators are shared.
SharedLinker(cs, c, markdown, base_url) ==
    LET others == {d \in DOMAIN cs : d /= c /\ cs[d].pc \notin {"idle", "returned"}
                                       /\ cs[d].linker.last_end > 0}
    IN  IF others = {} THEN NewLinker(markdown, base_url)
        ELSE LET d == CHOOSE d \in others : TRUE
             IN  [ NewLinker(markdown, base_url) EXCEPT
                     !.link_map = cs[d].linker.link_map,
                     !.url_cache = cs[d].linker.url_cache,
                     !.counter = cs[d].linker.counter ]

\* link_map = {}; url_cache = {}; parts = []; counter = 1: locals of the call
FreshLinker(cs, c, markdown, base_url) == NewLinker(markdown, base_url)

\* html_to_markdown up to the call of generate_markdown: the short circuit, a
\* new PruningContentFilter and a new DefaultMarkdownGenerator
EnterCall(args) ==
    IF args.html = EmptyHtml
    THEN [pc |-> "returned", args |-> args, ret |-> Empty]
    ELSE [ pc |-> "render", args |-> args,
           content_filter |-> IF args.use_pruning THEN args.pruning ELSE PruneCfg("none", 0, 0),
           h |-> [baseurl |-> args.base_url],
           raw_markdown |-> Empty, markdown_with_citations |-> Empty,
           references_markdown |-> Empty, fit_markdown |-> Empty, filtered_html |-> Empty,
           linker |-> IdleLinker, result |-> Empty, ret |-> Empty ]

\* MarkdownGenerationResult(...)
GenerationResult(raw, cited, refs, fit, fit_html) ==
    [ raw_markdown |-> raw, markdown_with_citations |-> cited,
      references_markdown |-> refs, fit_markdown |-> fit, fit_html |-> fit_html ]

ExceptLeaky(call, step) ==
    [ call EXCEPT
        !.result = GenerationResult(ErrorMsg(step), ErrorMsg(step),
                                    call.references_markdown, Empty, call.filtered_html),
        !.pc = "generated" ]

\* except Exception as e: return MarkdownGenerationResult(error_msg, error_msg, "", "", "")
Except(call, step) ==
    [ call EXCEPT
        !.result = GenerationResult(ErrorMsg(step), ErrorMsg(step), Empty, Empty, Empty),
        !.pc = "generated" ]

\* return MarkdownGenerationResult(raw_markdown=..., ..., fit_html=filtered_html)
Generated(call) ==
    [ call EXCEPT
        !.result = GenerationResult(call.raw_markdown, call.markdown_with_citations,
                                    call.references_markdown, call.fit_markdown,
                                    call.filtered_html),
        !.pc = "generated" ]

\* h = HTML2Text(baseurl=base_url) and its options; raw_markdown = h.handle(...);
\* markdown_with_citations = raw_markdown; references_markdown = ""
RenderStep(cs, c) ==
    LET call == cs[c]
        raw  == Handle(call.h, [kind |-> "page", name |-> call.args.html.name])
    IN  IF call.args.html.raises = "render" THEN Except(call, "render")
        ELSE [ call EXCEPT
                 !.raw_markdown = raw,
                 !.markdown_with_citations = raw,
                 !.linker = FreshLinker(cs, c, call.args.html.markdown, call.args.base_url),
                 !.pc = IF call.args.use_citations THEN "cite" ELSE "filter" ]

\* One match of convert_links_to_citations inside the call (urljoin may raise).
CiteNextStep(call) ==
    IF CiteRaises(call.linker) THEN Except(call, "cite")
    ELSE [call EXCEPT !.linker = CiteStep(call.linker)]

\* markdown_with_citations, references_markdown = self.convert_links_to_citations(...)
CiteDoneStep(call) ==
    LET done == CiteEnd(call.linker)
    IN  [ call EXCEPT
            !.linker = done,
            !.markdown_with_citations = [kind |-> "cited", parts |-> done.parts],
            !.references_markdown = [kind |-> "references", lines |-> done.references],
            !.pc = "filter" ]

\* active_filter = content_filter or self.content_filter; filter_content on the
\* input html; filtered_html = "\n".join(f"<div>{s}</div>" ...)
FilterStep(call) ==
    IF call.content_filter.threshold_type = "none" THEN Generated(call)
    ELSE IF call.args.html.raises = "filter" THEN Except(call, "filter")
    ELSE LET f == filter_content(call.content_filter, call.args.html.doc)
         IN  [ call EXCEPT
                 !.filtered_html = [kind |-> "html", page |-> call.args.html.name,
                                    blocks |-> f.content_blocks, alive |-> f.alive],
                 !.pc = "fit" ]

\* fit_markdown = h.handle(filtered_html), then the result
FitStep(call) ==
    IF call.args.html.raises = "fit" THEN Except(call, "fit")
    ELSE Generated([call EXCEPT !.fit_markdown = Handle(call.h, call.filtered_html)])

\* return result.fit_markdown.strip()
ReturnStep(call) ==
    [call EXCEPT !.ret = StripText(call.result.fit_markdown), !.pc = "returned"]

InitGen ==
    /\ calls = [c \in 1..MaxCalls |-> IdleCall]
    /\ linker = IdleLinker
    /\ filt = IdleFilt
    /\ crawl = IdleCrawl

HtmlToMarkdown(c) ==
    /\ calls[c].pc = "idle"
    /\ \E args \in CallArgs : calls' = [calls EXCEPT ![c] = EnterCall(args)]
    /\ UNCHANGED <<linker, filt, crawl>>

Render(c) ==
    /\ calls[c].pc = "render"
    /\ calls' = [calls EXCEPT ![c] = RenderStep(calls, c)]
    /\ UNCHANGED <<linker, filt, crawl>>

CiteNext(c) ==
    /\ calls[c].pc = "cite"
    /\ calls[c].linker.last_end < Len(calls[c].linker.markdown)
    /\ calls' = [calls EXCEPT ![c] = CiteNextStep(calls[c])]
    /\ UNCHANGED <<linker, filt, crawl>>

CiteDone(c) ==
    /\ calls[c].pc = "cite"
    /\ calls[c].linker.last_end = Len(calls[c].linker.markdown)
    /\ calls' = [calls EXCEPT ![c] = CiteDoneStep(calls[c])]
    /\ UNCHANGED <<linker, filt, crawl>>

Filter(c) ==
    /\ calls[c].pc = "filter"
    /\ calls' = [calls EXCEPT ![c] = FilterStep(calls[c])]
    /\ UNCHANGED <<linker, filt, crawl>>

RenderFit(c) ==
    /\ calls[c].pc = "fit"
    /\ calls' = [calls EXCEPT ![c] = FitStep(calls[c])]
    /\ UNCHANGED <<linker, filt, crawl>>

Return(c) ==
    /\ calls[c].pc = "generated"
    /\ calls' = [calls EXCEPT ![c] = ReturnStep(calls[c])]
    /\ UNCHANGED <<linker, filt, crawl>>

NextGen ==
    \E c \in 1..MaxCalls :
        \/ HtmlToMarkdown(c)
        \/ Render(c)
        \/ CiteNext(c)
        \/ CiteDone(c)
        \/ Filter(c)
        \/ RenderFit(c)
        \/ Return(c)

SpecGen == InitGen /\ [][NextGen]_vars


\* ------------------------------------------------------------------------
\* Claims about generate_markdown and html_to_markdown (checked under SpecGen)
\* ------------------------------------------------------------------------
\* Whether a step of generate_markdown raises on these arguments: the render,
\* the citation rewrite when citations are on, the filter or the second render
\* when a filter is active.
StepFails(args) ==
    \/ args.html.raises = "render"
    \/ /\ args.use_citations
       /\ UrljoinRaises(args.base_url)
       /\ \E i \in 1..Len(args.html.markdown) :
             LET url == args.html.markdown[i].url
             IN  ~(StartsWith(url, "http://") \/ StartsWith(url, "https://")
                   \/ StartsWith(url, "mailto:") \/ StartsWith(url, "/"))
    \/ args.use_pruning /\ args.html.raises \in {"filter", "fit"}

HasResult(call) == call.pc \in {"generated", "returned"} /\ call.args.html /= EmptyHtml

\* C1: generate_markdown never propagates an exception: every call of it ends
\* with a result, and when a step raised the result carries the error text in
\* raw_markdown and markdown_with_citations and is empty in references_markdown,
\* fit_markdown and fit_html, whatever had been computed before.
C1_FailureContained ==
    \A c \in 1..MaxCalls :
        /\ calls[c].pc \in {"idle", "render", "cite", "filter", "fit", "generated", "returned"}
        /\ HasResult(calls[c]) =>
              LET r == calls[c].result
              IN  IF StepFails(calls[c].args)
                  THEN /\ r.raw_markdown.kind = "error"
                       /\ r.markdown_with_citations = r.raw_markdown
                       /\ r.references_markdown = Empty
                       /\ r.fit_markdown = Empty
                       /\ r.fit_html = Empty
                  ELSE r.raw_markdown.kind = "md"

\* A call whose second render raised after the citations, the references and
\* the fragments had been computed.
C1_Witness ==
    \E c \in 1..MaxCalls :
        /\ HasResult(calls[c])
        /\ calls[c].args.html.raises = "fit"
        /\ calls[c].references_markdown /= Empty
        /\ calls[c].filtered_html /= Empty
        /\ calls[c].result = GenerationResult(ErrorMsg("fit"), ErrorMsg("fit"), Empty, Empty, Empty)

\* The call run with no other call in progress.
RECURSIVE RunAlone(_)
RunAlone(call) ==
    IF call.pc = "returned" THEN call
    ELSE RunAlone(
           CASE call.pc = "render" -> RenderStep(<<call>>, 1)
             [] call.pc = "cite" /\ call.linker.last_end < Len(call.linker.markdown)
                    -> CiteNextStep(call)
             [] call.pc = "cite" /\ call.linker.last_end = Len(call.linker.markdown)
                    -> CiteDoneStep(call)
             [] call.pc = "filter" -> FilterStep(call)
             [] call.pc = "fit" -> FitStep(call)
             [] call.pc = "generated" -> ReturnStep(call))

\* C5: however html_to_markdown calls interleave, each returns what it returns
\* when run alone on its arguments (and so do the results of generate_markdown),
\* calls with identical arguments return identical outputs, and the citation
\* numbering of every call starts at 1.
C5_CallsIsolated ==
    /\ \A c \in 1..MaxCalls :
          /\ calls[c].pc = "returned" =>
                calls[c].ret = RunAlone(EnterCall(calls[c].args)).ret
          /\ HasResult(calls[c]) =>
                calls[c].result = RunAlone(EnterCall(calls[c].args)).result
          /\ (calls[c].pc \in {"cite", "filter", "fit"} /\ calls[c].linker.parts /= <<>>) =>
                calls[c].linker.parts[1].num = 1
    /\ \A c, d \in 1..MaxCalls :
          (calls[c].pc = "returned" /\ calls[d].pc = "returned" /\ calls[c].args = calls[d].args)
              => calls[c] = calls[d]

\* Two calls in the middle of their citation scans at once, the second
\* numbering from 1 while the first has already handed out numbers.
C5_Witness ==
    \E c, d \in 1..MaxCalls :
        /\ c /= d
        /\ calls[c].pc = "cite" /\ calls[c].linker.counter > 2
        /\ calls[d].pc = "cite" /\ Len(calls[d].linker.parts) = 1
        /\ calls[d].linker.parts[1].num = 1


\* ------------------------------------------------------------------------
\* The batch crawler (AsyncMinimalCrawler.arun_many, BrowserManager) and the
\* crawl_urls tool
\* ------------------------------------------------------------------------
MaxUrls == 2

\* The URLs the model passes in: all of the shape scheme://netloc/path.
Urls == {"http://a", "https://b/p", "ftp://c", "http://"}

\* urlparse(url).scheme and .netloc for a URL of that shape
UrlScheme(url) ==
    LET at == {i \in 1..(Len(url) - 2) : SubSeq(url, i, i + 2) = "://"}
    IN  IF at = {} THEN "" ELSE SubSeq(url, 1, SetMin(at) - 1)

UrlNetloc(url) ==
    LET at == {i \in 1..(Len(url) - 2) : SubSeq(url, i, i + 2) = "://"}
    IN  IF at = {} THEN ""
        ELSE LET from == SetMin(at) + 3
                 stop == SetMin({i \in from..Len(url) : SubSeq(url, i, i) = "/"}
                                \cup {Len(url) + 1})
             IN  SubSeq(url, from, stop - 1)

\* is_valid_url without the test of the scheme
ValidWithoutScheme(url) == ~UrljoinRaises(url) /\ UrlNetloc(url) /= ""

\* is_valid_url: urlparse raising counts as invalid
is_valid_url(url) ==
    /\ ~UrljoinRaises(url)
    /\ UrlScheme(url) \in {"http", "https"}
    /\ UrlNetloc(url) /= ""

\* CrawlConfig; js_code is whether a script is given
CrawlConfig(max_concurrent, scroll, scroll_times, js_code, screenshot) ==
    [ max_concurrent |-> max_concurrent, scroll |-> scroll, scroll_times |-> scroll_times,
      js_code |-> js_code, screenshot |-> screenshot, base_url |-> "",
      use_pruning |-> TRUE, pruning |-> PruneCfg("dynamic", 600000, 0),
      use_citations |-> TRUE ]

\* CrawlConfig(): the defaults of config.py
DefaultCrawlConfig == CrawlConfig(5, TRUE, 5, FALSE, FALSE)

\* The URLs arun_many is called with directly
ArunUrls == {"http://a", "https://b/p"}

\* The configurations arun_many is called with directly
DirectConfigs == {CrawlConfig(1, FALSE, 0, TRUE, TRUE), CrawlConfig(2, TRUE, 1, FALSE, FALSE)}

\* What page.content() may return
PagesServed ==
    { Page("article", DocsLinks, ArticleDoc, "none"),
      Page("blank", <<>>, <<Node("body", 0, "", "")>>, "none"),
      Page("r", DocsLinks, ArticleDoc, "render") }

NoResult == [kind |-> "none"]

\* CrawlResult(url, markdown, html, error); error "" is None
CrawlResult(url, markdown, html, error) ==
    [kind |-> "result", url |-> url, markdown |-> markdown, html |-> html, error |-> error]

NewTask(url) ==
    [ url |-> url, pc |-> "pending", scrolled |-> 0, page |-> "none", html |-> EmptyHtml,
      markdown |-> Empty, failed |-> "none", result |-> NoResult ]

RECURSIVE MapSeq(_, _)
MapSeq(Op(_), sq) == IF sq = <<>> THEN <<>> ELSE <<Op(Head(sq))>> \o MapSeq(Op, Tail(sq))

RECURSIVE FilterSeq(_, _)
FilterSeq(Test(_), sq) ==
    IF sq = <<>> THEN <<>>
    ELSE (IF Test(Head(sq)) THEN <<Head(sq)>> ELSE <<>>) \o FilterSeq(Test, Tail(sq))

AfterJs(cfg) ==
    IF cfg.scroll THEN (IF cfg.scroll_times > 0 THEN "scroll" ELSE "scroll_top") ELSE "content"

AfterGoto(cfg) == IF cfg.js_code THEN "js" ELSE AfterJs(cfg)

AfterContent(cfg) == IF cfg.screenshot THEN "screenshot" ELSE "convert"

\* html_to_markdown(html, base_url=config.base_url or url, ...): the call run
\* to its return
html_to_markdown(html, url, cfg) ==
    LET RECURSIVE Run(_)
        Run(call) ==
            IF call.pc = "returned" THEN call
            ELSE Run(CASE call.pc = "render" -> RenderStep(<<call>>, 1)
                       [] call.pc = "cite" /\ call.linker.last_end < Len(call.linker.markdown)
                              -> CiteNextStep(call)
                       [] call.pc = "cite" /\ call.linker.last_end = Len(call.linker.markdown)
                              -> CiteDoneStep(call)
                       [] call.pc = "filter" -> FilterStep(call)
                       [] call.pc = "fit" -> FitStep(call)
                       [] call.pc = "generated" -> ReturnStep(call))
    IN  Run(EnterCall(Args(html, IF cfg.base_url /= "" THEN cfg.base_url ELSE url,
                           cfg.use_pruning, cfg.pruning, cfg.use_citations))).ret

\* except Exception as e: return CrawlResult(url=url, error=...); leaving the
\* async with releases the semaphore.  The tab is not closed on this path.
\* The coroutine's loop counter is gone once it has returned.
TabExcept(cr, t) ==
    [ cr EXCEPT
        !.tasks[t].scrolled = 0,
        !.tasks[t].failed = cr.tasks[t].pc,
        !.tasks[t].result = CrawlResult(cr.tasks[t].url, Empty, EmptyHtml,
                                        "Error: " \o cr.tasks[t].pc),
        !.tasks[t].pc = "done",
        !.semaphore = @ + 1 ]

\* await page.close(); return CrawlResult(url, markdown, html, screenshot)
TabReturn(cr, t) ==
    [ cr EXCEPT
        !.tasks[t].scrolled = 0,
        !.tasks[t].page = "closed",
        !.tasks[t].result = CrawlResult(cr.tasks[t].url, cr.tasks[t].markdown,
                                        cr.tasks[t].html, ""),
        !.tasks[t].pc = "done",
        !.semaphore = @ + 1 ]

TaskResult(task) == task.result

\* await asyncio.gather(*tasks): the results in the order of the tasks
GatherResults(tasks) == MapSeq(TaskResult, tasks)

\* The message crawl_urls files a result under
ResultMessage(r) ==
    IF r.error /= "" THEN [kind |-> "crawl_failed", text |-> "Crawl failed: " \o r.error]
    ELSE IF r.markdown /= Empty THEN [kind |-> "markdown", text |-> r.markdown]
    ELSE [kind |-> "empty_page", text |-> "empty page"]

\* for r in crawl_results: results_map[r.url] = ...
RECURSIVE ParseInto(_, _)
ParseInto(results_map, results) ==
    IF results = <<>> THEN results_map
    ELSE LET r == Head(results)
         IN  ParseInto([u \in DOMAIN results_map \cup {r.url} |->
                           IF u = r.url THEN ResultMessage(r) ELSE results_map[u]],
                       Tail(results))

\* arun_many entered: config = config or CrawlConfig(); the semaphore
EnterArunMany(cr, urls, cfg) ==
    [ cr EXCEPT
        !.pc = "arun", !.config = cfg, !.arun_urls = urls,
        !.semaphore = cfg.max_concurrent ]

NewCrawl(entry, urls) ==
    [ entry |-> entry, urls |-> urls, pc |-> "called", valid_urls |-> <<>>,
      results_map |-> EmptyMap, config |-> DefaultCrawlConfig, arun_urls |-> <<>>,
      semaphore |-> 0,
      bm |-> [playwright |-> "none", browser |-> "none", context |-> "none"],
      tasks |-> <<>>, crawl_results |-> <<>>, error |-> "" ]

\* crawl_urls up to the call of arun_many: the validation loop and the early
\* return
ValidateUrls(cr) ==
    LET valid   == FilterSeq(is_valid_url, cr.urls)
        invalid == {cr.urls[i] : i \in {j \in 1..Len(cr.urls) : ~is_valid_url(cr.urls[j])}}
        map     == [u \in invalid |-> [kind |-> "not_a_website", text |-> "thi url is not a website"]]
    IN  IF valid = <<>>
        THEN [cr EXCEPT !.results_map = map, !.pc = "returned"]
        ELSE EnterArunMany([cr EXCEPT !.valid_urls = valid, !.results_map = map],
                           valid, DefaultCrawlConfig)

InitCrawl ==
    /\ \/ \E urls \in SeqsUpTo(Urls, MaxUrls) : crawl = NewCrawl("crawl_urls", urls)
       \/ \E urls \in SeqsUpTo(ArunUrls, MaxUrls), cfg \in DirectConfigs :
             crawl = EnterArunMany(NewCrawl("arun_many", urls), urls, cfg)
    /\ linker = IdleLinker
    /\ filt = IdleFilt
    /\ calls = IdleCalls

\* --- crawl_urls ---
Validate ==
    /\ crawl.entry = "crawl_urls" /\ crawl.pc = "called"
    /\ crawl' = ValidateUrls(crawl)
    /\ UNCHANGED <<linker, filt, calls>>

ParseResults ==
    /\ crawl.entry = "crawl_urls" /\ crawl.pc = "arun_returned"
    /\ crawl' = [crawl EXCEPT !.results_map = ParseInto(@, crawl.crawl_results),
                              !.pc = "returned"]
    /\ UNCHANGED <<linker, filt, calls>>

\* except Exception as e: every valid url not yet in the map gets the message
SystemError ==
    /\ crawl.entry = "crawl_urls" /\ crawl.pc = "arun_raised"
    /\ crawl' = [crawl EXCEPT
                   !.results_map =
                       [u \in DOMAIN @ \cup {crawl.valid_urls[i] : i \in 1..Len(crawl.valid_urls)} |->
                           IF u \in DOMAIN @ THEN @[u]
                           ELSE [kind |-> "system_error",
                                 text |-> "System error: " \o crawl.error]],
                   !.pc = "returned"]
    /\ UNCHANGED <<linker, filt, calls>>

\* --- BrowserManager.__aenter__ ---
StartPlaywright ==
    /\ crawl.pc = "arun"
    /\ crawl' = [crawl EXCEPT !.bm.playwright = "started", !.pc = "launch"]
    /\ UNCHANGED <<linker, filt, calls>>

LaunchBrowser ==
    /\ crawl.pc = "launch"
    /\ crawl' = [crawl EXCEPT !.bm.browser = "open", !.pc = "new_context"]
    /\ UNCHANGED <<linker, filt, calls>>

\* new_context, then the tasks are created and gathered
NewContext ==
    /\ crawl.pc = "new_context"
    /\ crawl' = [crawl EXCEPT !.bm.context = "open", !.pc = "tasks",
                              !.tasks = MapSeq(NewTask, crawl.arun_urls)]
    /\ UNCHANGED <<linker, filt, calls>>

\* A step of __aenter__ raises: arun_many raises, __aexit__ is not run
StartFails ==
    /\ crawl.pc \in {"arun", "launch", "new_context"}
    /\ crawl' = [crawl EXCEPT !.error = "Error: " \o crawl.pc, !.pc = "arun_raised"]
    /\ UNCHANGED <<linker, filt, calls>>

\* --- bounded_crawl ---
\* Task t of the gather stands before the step named pc
TaskAt(t, pc) == crawl.pc = "tasks" /\ t \in DOMAIN crawl.tasks /\ crawl.tasks[t].pc = pc

Acquire(t) ==
    /\ TaskAt(t, "pending")
    /\ crawl.semaphore > 0
    /\ crawl' = [crawl EXCEPT !.semaphore = @ - 1, !.tasks[t].pc = "new_page"]
    /\ UNCHANGED <<linker, filt, calls>>

\* page = await self.context.new_page()
NewPage(t) ==
    /\ TaskAt(t, "new_page")
    /\ crawl' = [crawl EXCEPT !.tasks[t].page = "open", !.tasks[t].pc = "stealth"]
    /\ UNCHANGED <<linker, filt, calls>>

\* await apply_stealth(page)
Stealth(t) ==
    /\ TaskAt(t, "stealth")
    /\ crawl' = [crawl EXCEPT !.tasks[t].pc = "goto"]
    /\ UNCHANGED <<linker, filt, calls>>

Goto(t) ==
    /\ TaskAt(t, "goto")
    /\ crawl' = [crawl EXCEPT !.tasks[t].pc = AfterGoto(crawl.config)]
    /\ UNCHANGED <<linker, filt, calls>>

RunJs(t) ==
    /\ TaskAt(t, "js")
    /\ crawl' = [crawl EXCEPT !.tasks[t].pc = AfterJs(crawl.config)]
    /\ UNCHANGED <<linker, filt, calls>>

\* one turn of the scroll loop: evaluate, sleep
ScrollOnce(t) ==
    /\ TaskAt(t, "scroll")
    /\ crawl' = [crawl EXCEPT
                   !.tasks[t].scrolled = @ + 1,
                   !.tasks[t].pc = IF crawl.tasks[t].scrolled + 1 >= crawl.config.scroll_times
                                   THEN "scroll_top" ELSE "scroll"]
    /\ UNCHANGED <<linker, filt, calls>>

ScrollTop(t) ==
    /\ TaskAt(t, "scroll_top")
    /\ crawl' = [crawl EXCEPT !.tasks[t].pc = "content"]
    /\ UNCHANGED <<linker, filt, calls>>

Content(t) ==
    /\ TaskAt(t, "content")
    /\ \E html \in PagesServed :
          crawl' = [crawl EXCEPT !.tasks[t].html = html,
                                 !.tasks[t].pc = AfterContent(crawl.config)]
    /\ UNCHANGED <<linker, filt, calls>>

Screenshot(t) ==
    /\ TaskAt(t, "screenshot")
    /\ crawl' = [crawl EXCEPT !.tasks[t].pc = "convert"]
    /\ UNCHANGED <<linker, filt, calls>>

Convert(t) ==
    /\ TaskAt(t, "convert")
    /\ crawl' = [crawl EXCEPT
                   !.tasks[t].markdown =
                       html_to_markdown(crawl.tasks[t].html, crawl.tasks[t].url, crawl.config),
                   !.tasks[t].pc = "close"]
    /\ UNCHANGED <<linker, filt, calls>>

ClosePage(t) ==
    /\ TaskAt(t, "close")
    /\ crawl' = TabReturn(crawl, t)
    /\ UNCHANGED <<linker, filt, calls>>

\* Any awaited page operation raises
TabFails(t) ==
    /\ \E op \in {"new_page", "stealth", "goto", "js", "scroll", "scroll_top",
                   "content", "screenshot", "close"} : TaskAt(t, op)
    /\ crawl' = TabExcept(crawl, t)
    /\ UNCHANGED <<linker, filt, calls>>

\* --- gather returns, BrowserManager.__aexit__ ---
Gathered ==
    /\ crawl.pc = "tasks"
    /\ \A t \in 1..Len(crawl.tasks) : crawl.tasks[t].pc = "done"
    /\ crawl' = [crawl EXCEPT !.crawl_results = GatherResults(crawl.tasks), !.pc = "ctx_close"]
    /\ UNCHANGED <<linker, filt, calls>>

CloseContext ==
    /\ crawl.pc = "ctx_close"
    /\ crawl' = [crawl EXCEPT !.bm.context = "closed", !.pc = "browser_close"]
    /\ UNCHANGED <<linker, filt, calls>>

CloseBrowser ==
    /\ crawl.pc = "browser_close"
    /\ crawl' = [crawl EXCEPT !.bm.browser = "closed", !.pc = "pw_stop"]
    /\ UNCHANGED <<linker, filt, calls>>

StopPlaywright ==
    /\ crawl.pc = "pw_stop"
    /\ crawl' = [crawl EXCEPT !.bm.playwright = "stopped", !.pc = "arun_returned"]
    /\ UNCHANGED <<linker, filt, calls>>

\* A step of __aexit__ raises: arun_many raises instead of returning
ExitFails ==
    /\ crawl.pc \in {"ctx_close", "browser_close", "pw_stop"}
    /\ crawl' = [crawl EXCEPT !.error = "Error: " \o crawl.pc, !.crawl_results = <<>>,
                              !.pc = "arun_raised"]
    /\ UNCHANGED <<linker, filt, calls>>

NextCrawl ==
    \/ Validate
    \/ ParseResults
    \/ SystemError
    \/ StartPlaywright
    \/ LaunchBrowser
    \/ NewContext
    \/ StartFails
    \/ Gathered
    \/ CloseContext
    \/ CloseBrowser
    \/ StopPlaywright
    \/ ExitFails
    \/ \E t \in 1..MaxUrls :
          \/ Acquire(t)
          \/ NewPage(t)
          \/ Stealth(t)
          \/ Goto(t)
          \/ RunJs(t)
          \/ ScrollOnce(t)
          \/ ScrollTop(t)
          \/ Content(t)
          \/ Screenshot(t)
          \/ Convert(t)
          \/ ClosePage(t)
          \/ TabFails(t)

SpecCrawl == InitCrawl /\ [][NextCrawl]_vars

\* ------------------------------------------------------------------------
\* Claims about the batch crawler and crawl_urls (checked under SpecCrawl)
\* ------------------------------------------------------------------------
\* The conversion of the page of a finished task raised inside generate_markdown
ConversionFails(task) ==
    /\ task.pc = "done" /\ task.failed = "none"
    /\ StepFails(Args(task.html,
                      IF crawl.config.base_url /= "" THEN crawl.config.base_url ELSE task.url,
                      crawl.config.use_pruning, crawl.config.pruning,
                      crawl.config.use_citations))

\* C6: when arun_many has returned there is exactly one CrawlResult per input
\* URL, in input order, and the result of every URL for which a page operation
\* (navigation, scripting, content extraction) or the conversion failed carries
\* an error.
C6_EveryFailureCarried ==
    crawl.pc = "arun_returned" =>
        /\ Len(crawl.crawl_results) = Len(crawl.arun_urls)
        /\ \A i \in 1..Len(crawl.arun_urls) :
              LET r == crawl.crawl_results[i]
              IN  /\ r.kind = "result"
                  /\ r.url = crawl.arun_urls[i]
                  /\ (crawl.tasks[i].failed /= "none" \/ ConversionFails(crawl.tasks[i]))
                        => r.error /= ""

\* The http/https URLs among Urls, told apart by hand
ValidHttp == {"http://a", "https://b/p"}

InputUrls == {crawl.urls[i] : i \in 1..Len(crawl.urls)}

\* C7: the map crawl_urls returns has a key for every URL of the input and no
\* other; a URL that is not a valid http/https URL maps to the not-a-website
\* message and is never handed to the crawler; a valid URL maps to its
\* markdown, "empty page", a "Crawl failed" message or a "System error"
\* message; when arun_many raised, every valid URL maps to "System error" and
\* the map is still returned.
C7_MapCoversEveryUrl ==
    crawl.entry = "crawl_urls" =>
        /\ crawl.pc /= "called" =>
              /\ \A i \in 1..Len(crawl.arun_urls) : crawl.arun_urls[i] \in ValidHttp
              /\ \A t \in 1..Len(crawl.tasks) : crawl.tasks[t].url \in ValidHttp
        /\ crawl.pc = "arun_raised" => ENABLED SystemError
        /\ crawl.pc = "returned" =>
              /\ DOMAIN crawl.results_map = InputUrls
              /\ \A u \in InputUrls :
                    LET v == crawl.results_map[u]
                    IN  IF u \notin ValidHttp
                        THEN v = [kind |-> "not_a_website", text |-> "thi url is not a website"]
                        ELSE \/ /\ v.kind = "markdown"
                                /\ v.text /= Empty
                                /\ \E i \in 1..Len(crawl.crawl_results) :
                                      /\ crawl.crawl_results[i].url = u
                                      /\ crawl.crawl_results[i].error = ""
                                      /\ crawl.crawl_results[i].markdown = v.text
                             \/ v = [kind |-> "empty_page", text |-> "empty page"]
                             \/ /\ v.kind = "crawl_failed"
                                /\ StartsWith(v.text, "Crawl failed: ")
                             \/ /\ v.kind = "system_error"
                                /\ StartsWith(v.text, "System error: ")
                                /\ crawl.error /= ""
              /\ crawl.error /= "" =>
                    \A u \in InputUrls \cap ValidHttp : crawl.results_map[u].kind = "system_error"

\* crawl_urls has returned a map for an input of one URL that is no website and
\* one valid URL, after the crawler as a whole failed
C7_Witness ==
    /\ crawl.entry = "crawl_urls" /\ crawl.pc = "returned"
    /\ crawl.error /= ""
    /\ \E u \in InputUrls : crawl.results_map[u].kind = "not_a_website"
    /\ \E u \in InputUrls : crawl.results_map[u].kind = "system_error"

\* ------------------------------------------------------------------------
\* Link-target resolution: the citation linker run on targets of every shape
\* ------------------------------------------------------------------------
\* One match per shape of target: root-relative, scheme-relative, absolute
\* (http, https, mailto), relative, and a root-relative one seen under a
\* second text
TargetOccurrences ==
    { Occ(FALSE, "p",    "/p/1",       ""),
      Occ(FALSE, "q",    "/p/1",       "Q"),
      Occ(FALSE, "cdn",  "//cdn/x",    ""),
      Occ(FALSE, "abs",  "http://x/a", ""),
      Occ(FALSE, "sec",  "https://x/a", ""),
      Occ(TRUE,  "mail", "mailto:m",   ""),
      Occ(FALSE, "rel",  "rel",        "") }

TargetBases == {"", "http://site.com/", "http://site.com", "http://site.com/a/b"}

InitResolve ==
    /\ \E md \in SeqsUpTo(TargetOccurrences, MaxMatches), b \in TargetBases :
          linker = NewLinker(md, b)
    /\ filt = IdleFilt
    /\ calls = IdleCalls
    /\ crawl = IdleCrawl

SpecResolve == InitResolve /\ [][NextCite]_vars

\* The URL under which the i-th match was filed: the key of link_map that
\* holds the number emitted for it
UrlOfPart(i) == CHOOSE u \in DOMAIN linker.link_map : linker.link_map[u][1] = linker.parts[i].num

KeptAsWritten(t) ==
    \/ StartsWith(t, "http://") \/ StartsWith(t, "https://")
    \/ StartsWith(t, "mailto:") \/ StartsWith(t, "//")

\* C11: every match consumed so far was filed under the URL the rule gives:
\* the target as written when base_url is empty or the target starts with
\* http://, https://, mailto: or //; base_url without its trailing / followed
\* by the target when the target starts with / (/p/1 against http://site.com/
\* is http://site.com/p/1); and two matches with the same raw target are filed
\* under the same URL and carry the same number.
C11_TargetResolution ==
    \A i \in 1..Len(linker.parts) :
        LET t == linker.markdown[i].url
            b == linker.base_url
        IN  /\ \E u \in DOMAIN linker.link_map : linker.link_map[u][1] = linker.parts[i].num
            /\ (b = "" \/ KeptAsWritten(t)) => UrlOfPart(i) = t
            /\ (b /= "" /\ ~KeptAsWritten(t) /\ StartsWith(t, "/")) =>
                  UrlOfPart(i) = (IF EndsWith(b, "/") THEN SubSeq(b, 1, Len(b) - 1) ELSE b) \o t
            /\ (b = "http://site.com/" /\ t = "/p/1") => UrlOfPart(i) = "http://site.com/p/1"
            /\ \A j \in 1..Len(linker.parts) :
                  linker.markdown[j].url = t =>
                      /\ UrlOfPart(j) = UrlOfPart(i)
                      /\ linker.parts[j].num = linker.parts[i].num

\* The call is over for /p/1 seen twice against http://site.com/, with a
\* scheme-relative target in between
C11_Witness ==
    /\ linker.pc = "done"
    /\ linker.base_url = "http://site.com/"
    /\ Len(linker.markdown) = 3
    /\ linker.markdown[1].url = "/p/1"
    /\ linker.markdown[2].url = "//cdn/x"
    /\ linker.markdown[3].url = "/p/1"
    /\ DOMAIN linker.link_map = {"http://site.com/p/1", "//cdn/x"}
    /\ linker.parts[3].num = 1

\* ------------------------------------------------------------------------
\* The shape of the pruning walk (checked under SpecPrune)
\* ------------------------------------------------------------------------
\* The elements of the document in document order, from element n down
RECURSIVE Preorder(_, _)
Preorder(doc, n) ==
    LET RECURSIVE Each(_)
        Each(cs) == IF cs = <<>> THEN <<>> ELSE Preorder(doc, Head(cs)) \o Each(Tail(cs))
    IN  <<n>> \o Each(Ascending({c \in 1..Len(doc) : doc[c].parent = n}))

\* The place of element n in document order
PlaceOf(doc, n) == CHOOSE i \in 1..Len(doc) : Preorder(doc, 1)[i] = n

VisitOf(n) == {i \in 1..Len(filt.visits) : filt.visits[i].node = n}

\* C12: the walk starts at the body and goes depth-first in document order; no
\* node is scored twice; a node other than the body is scored only after its
\* parent was scored and kept, so no descendant of a removed node is ever
\* scored; a removed node leaves the tree with its whole subtree; when the walk
\* is over every element child of a kept node has been scored; and the fragments
\* returned are exactly the element children of the body that are still in the
\* tree and have non-empty stripped text, in document order.
C12_DepthFirstPruning ==
    /\ \A i \in 1..Len(filt.visits) :
          LET v == filt.visits[i]
          IN  /\ i = 1 => v.node = 1
              /\ \A j \in 1..Len(filt.visits) :
                    i < j => PlaceOf(filt.doc, v.node) < PlaceOf(filt.doc, filt.visits[j].node)
              /\ v.node /= 1 =>
                    \E j \in 1..(i - 1) :
                        /\ filt.visits[j].node = filt.doc[v.node].parent
                        /\ ~filt.visits[j].removed
              /\ v.removed => Subtree(filt.doc, v.node) \cap filt.alive = {}
              /\ ~v.removed => v.node \in filt.alive
    /\ filt.pc = "done" =>
          /\ \A i \in 1..Len(filt.visits) :
                ~filt.visits[i].removed =>
                    \A c \in AfterUnwanted :
                        filt.doc[c].parent = filt.visits[i].node => VisitOf(c) /= {}
          /\ LET kept == {c \in filt.alive :
                             /\ filt.doc[c].parent = 1
                             /\ 1 \in filt.alive
                             /\ \E k \in Subtree(filt.doc, c) \cap filt.alive :
                                   Strip(filt.doc[k].text) /= ""}
             IN  /\ Len(filt.content_blocks) = Cardinality(kept)
                 /\ {filt.content_blocks[k] : k \in 1..Len(filt.content_blocks)} = kept
                 /\ \A k \in 1..(Len(filt.content_blocks) - 1) :
                       filt.content_blocks[k] < filt.content_blocks[k + 1]

\* The walk is over on a document where it went down into the first child of
\* the body before the second, removed the second with its child unscored, and
\* returned the first as the only fragment
C12_Witness ==
    /\ filt.pc = "done"
    /\ Len(filt.doc) = 5
    /\ Len(filt.visits) = 4
    /\ filt.visits[2].node = 2 /\ ~filt.visits[2].removed
    /\ filt.visits[3].node = 4
    /\ filt.visits[4].node = 3 /\ filt.visits[4].removed
    /\ VisitOf(5) = {}
    /\ 5 \notin filt.alive
    /\ filt.content_blocks = <<2>>

\* ------------------------------------------------------------------------
\* Tabs and the browser life cycle (checked under SpecCrawl)
\* ------------------------------------------------------------------------
\* The tasks whose page was opened with new_page and has not been closed
OpenTabs == {t \in 1..Len(crawl.tasks) : crawl.tasks[t].page = "open"}

\* C13: while the tasks of an arun_many call run, the number of pages opened
\* with new_page and not yet closed is at most config.max_concurrent.
C13_OpenTabsBounded ==
    crawl.pc = "tasks" => Cardinality(OpenTabs) <= crawl.config.max_concurrent

\* C14: the browser of an arun_many call is started once and before any tab:
\* tasks run, and tabs are opened, only while the driver is started and the one
\* browser and the one context are open; and once every task has finished and
\* the call has ended, by returning or by raising, the context and the browser
\* are closed and the driver is stopped.
C14_BrowserClosedOnEveryPath ==
    /\ crawl.pc = "tasks" =>
          crawl.bm = [playwright |-> "started", browser |-> "open", context |-> "open"]
    /\ (crawl.pc \in {"arun", "launch", "new_context"}) => OpenTabs = {}
    /\ (crawl.pc \in {"arun_returned", "arun_raised"} /\ crawl.bm.context /= "none") =>
          /\ \A t \in 1..Len(crawl.tasks) : crawl.tasks[t].pc = "done"
          /\ crawl.bm = [playwright |-> "stopped", browser |-> "closed", context |-> "closed"]


=============================================================================
